---- MODULE Spec2Model ----
(***************************************************************************)
(* Model of the movie recommender's retrieval pipeline:                    *)
(*   src/src/app/vector_store.py  (document builder, index builder,        *)
(*                                 process-wide retriever)                 *)
(*                                                                         *)
(* Python values are tagged records [t |-> type, v |-> payload]; a key     *)
(* that is absent from a dict is the value Missing.  Python strings are    *)
(* sequences of one-character strings, so that split, strip, join and str  *)
(* are computed and not assumed.  Ratings are fixed-point numbers in       *)
(* tenths (8.8 is 88); runtimes are fixed-point minutes in tenths.         *)
(***************************************************************************)
EXTENDS Integers, Sequences, FiniteSets, TLC

VARIABLES
    results,          \* create_documents: the list of records it is given
    record,           \* create_document_from_record: its argument
    doc,              \* create_document_from_record: its return value
    movie_documents,  \* create_documents: its return value
    movies,           \* the graph store: its Movie nodes with their relations
    index,            \* the graph store: the named vector index movie_embeddings
    _retriever,       \* vector_store.py: the process-wide _retriever
    pc,               \* per session: where its get_retriever call stands
    frame,            \* per session: the locals of get_retriever and create_neo4j_vector_store
    trace,            \* per session: the backend operations of its current call
    returned,         \* per session: what its last get_retriever call gave its caller
    calls,            \* the get_retriever calls made in the process
    initialisations,  \* the create_neo4j_vector_store calls made by get_retriever
    failures,         \* the create_neo4j_vector_store calls that raised or returned None
    instances,        \* the Neo4jVector objects constructed
    ranking,          \* the index documents by similarity to the query, best first
    tool,             \* the last call of a retrieval tool: its arguments and what it returned
    tool_input,       \* the arguments the agent passes to the retrieval tools
    main_pc,          \* where a run of vector_store.main() stands
    messages_agent,   \* chatbot.py: st.session_state.messages_agent
    turn,             \* chatbot.py: where the script run of the session stands
    turns             \* chatbot.py: the script runs of the session

docVars == <<results, record, doc, movie_documents>>
storeVars == <<movies, index, _retriever, pc, frame, trace, returned, calls,
               initialisations, failures, instances>>
toolVars == <<ranking, tool, tool_input, main_pc>>
chatVars == <<messages_agent, turn, turns>>
vars == <<docVars, storeVars, toolVars, chatVars>>

-----------------------------------------------------------------------------
(* Bounds of the input domains *)

MaxOverviewLen == 3
MaxTaglineLen == 2
MaxDateLen == 3
MaxGenres == 2
MaxActors == 6
MaxMovieId == 21
MaxRating == 100
MaxRuntime == 130
MaxMovies == 2
MaxCalls == 2

-----------------------------------------------------------------------------
(* Python values *)

Missing == [t |-> "missing", v |-> 0]
None == [t |-> "none", v |-> 0]
PyStr(s) == [t |-> "str", v |-> s]
PyNum(n) == [t |-> "num", v |-> n]
PyInt(n) == [t |-> "int", v |-> n]
PyList(l) == [t |-> "list", v |-> l]
Pending == [t |-> "pending", v |-> 0]

\* dict.get(key, default): the default only when the key is absent
Get(value, default) == IF value.t = "missing" THEN default ELSE value

\* Python truthiness of a value
Truthy(value) ==
    CASE value.t \in {"missing", "none"} -> FALSE
      [] value.t \in {"str", "list"} -> Len(value.v) > 0
      [] value.t \in {"num", "int"} -> value.v # 0
      [] OTHER -> TRUE

\* a or b
Or(a, b) == IF Truthy(a) THEN a ELSE b

Strings(alphabet, n) == UNION {[1..k -> alphabet] : k \in 0..n}

Whitespace == {" ", "\t", "\n"}

RECURSIVE lstrip(_)
lstrip(s) ==
    IF s = <<>> THEN <<>>
    ELSE IF Head(s) \in Whitespace THEN lstrip(Tail(s)) ELSE s

RECURSIVE rstrip(_)
rstrip(s) ==
    IF s = <<>> THEN <<>>
    ELSE IF s[Len(s)] \in Whitespace THEN rstrip(SubSeq(s, 1, Len(s) - 1)) ELSE s

\* str.strip()
strip(s) == rstrip(lstrip(s))

\* sep.join(parts)
RECURSIVE join(_, _)
join(sep, parts) ==
    IF parts = <<>> THEN <<>>
    ELSE IF Len(parts) = 1 THEN parts[1]
    ELSE parts[1] \o sep \o join(sep, Tail(parts))

\* s.split(sep)[0] for a one-character separator
RECURSIVE split_first(_, _)
split_first(s, sep) ==
    IF s = <<>> THEN <<>>
    ELSE IF Head(s) = sep THEN <<>>
    ELSE <<Head(s)>> \o split_first(Tail(s), sep)

DigitChar(d) == <<"0", "1", "2", "3", "4", "5", "6", "7", "8", "9">>[d + 1]

RECURSIVE digits(_)
digits(n) == IF n < 10 THEN <<DigitChar(n)>> ELSE digits(n \div 10) \o <<DigitChar(n % 10)>>

\* str(value) for the values a record holds
str(value) ==
    CASE value.t = "str" -> value.v
      [] value.t = "none" -> <<"N", "o", "n", "e">>
      [] value.t = "int" -> IF value.v < 0 THEN <<"-">> \o digits(-value.v) ELSE digits(value.v)
      [] OTHER -> <<>>

\* float(value) of a number, in tenths
float(value) == value.v

\* int(value) of a number in tenths: truncation toward zero, in whole units
int(value) == IF value.v >= 0 THEN value.v \div 10 ELSE -((-value.v) \div 10)

\* [x for x in l if x]
RECURSIVE non_empty(_)
non_empty(l) ==
    IF l = <<>> THEN <<>>
    ELSE IF Head(l) # <<>> THEN <<Head(l)>> \o non_empty(Tail(l)) ELSE non_empty(Tail(l))

\* l[:n]
slice_to(l, n) == SubSeq(l, 1, IF Len(l) < n THEN Len(l) ELSE n)

Unknown == <<"U", "n", "k", "n", "o", "w", "n">>
CommaSpace == <<",", " ">>
Paragraph == <<"\n", "\n">>
TitrePrefix == <<"T", "i", "t", "r", "e", " ", ":", " ">>
\* "Film réalisé par ", written without its accents
DirectorPrefix == <<"F", "i", "l", "m", " ", "r", "e", "a", "l", "i", "s", "e", " ", "p", "a", "r", " ">>
ActorsPrefix == <<"A", "c", "t", "e", "u", "r", "s", " ", ":", " ">>
GenresPrefix == <<"G", "e", "n", "r", "e", "s", " ", ":", " ">>
MoviePrefix == <<"m", "o", "v", "i", "e", "_">>

-----------------------------------------------------------------------------
(* Document Builder: create_document_from_record *)

HighRating == 7
MediumRating == 5
LongRuntime == 120
MediumRuntime == 90
DisplayedActors == 5

\* the guard without the strip: only "not overview"
overview_is_blank_unstripped(rec) == ~Truthy(Get(rec.overview, PyStr(<<>>)))

\* the overview guard of create_document_from_record
overview_is_blank(rec) ==
    LET overview == Get(rec.overview, PyStr(<<>>))
    IN  ~Truthy(overview) \/ strip(str(overview)) = <<>>

\* the thresholds compared with > instead of >=
rating_category_exclusive(rating) ==
    IF rating > HighRating * 10 THEN "high"
    ELSE IF rating > MediumRating * 10 THEN "medium" ELSE "low"

rating_category(rating) ==
    IF rating >= HighRating * 10 THEN "high"
    ELSE IF rating >= MediumRating * 10 THEN "medium" ELSE "low"

\* the thresholds compared with > instead of >=
length_category_exclusive(runtime) ==
    IF runtime > LongRuntime THEN "long"
    ELSE IF runtime > MediumRuntime THEN "medium" ELSE "short"

length_category(runtime) ==
    IF runtime >= LongRuntime THEN "long"
    ELSE IF runtime >= MediumRuntime THEN "medium" ELSE "short"

\* the list cut to 5 before the empty names are dropped
main_actors_cut_first(rec) ==
    LET actors == non_empty(slice_to(Get(rec.actors, PyList(<<>>)).v, DisplayedActors))
    IN  IF actors # <<>> THEN join(CommaSpace, actors) ELSE Unknown

main_actors_of(rec) ==
    LET actors == non_empty(Get(rec.actors, PyList(<<>>)).v)
    IN  IF actors # <<>> THEN join(CommaSpace, slice_to(actors, DisplayedActors)) ELSE Unknown

all_genres_of(rec) ==
    LET genres == non_empty(Get(rec.genres, PyList(<<>>)).v)
    IN  IF genres # <<>> THEN join(CommaSpace, genres) ELSE Unknown

director_of(rec) == str(Or(rec.director_name, PyStr(Unknown)))

year_of(rec) ==
    LET release_date == str(Get(rec.release_date, PyStr(<<>>)))
    IN  IF release_date # <<>> THEN split_first(release_date, "-") ELSE Unknown

\* the id derived from the title
document_id_from_title(metadata) == MoviePrefix \o metadata.title

document_id(metadata) == MoviePrefix \o metadata.movie_id

create_document_from_record(rec) ==
    IF overview_is_blank(rec) THEN None
    ELSE
        LET overview == str(rec.overview)
            director == director_of(rec)
            main_actors == main_actors_of(rec)
            all_genres == all_genres_of(rec)
            tagline == strip(str(Or(rec.tagline, PyStr(<<>>))))
            title == str(Get(rec.title, PyStr(Unknown)))
            content_parts ==
                <<TitrePrefix \o title>>
                \o (IF tagline # <<>> THEN <<tagline>> ELSE <<>>)
                \o <<overview,
                     DirectorPrefix \o director,
                     ActorsPrefix \o main_actors,
                     GenresPrefix \o all_genres>>
            rating == float(Get(rec.rating, PyNum(0)))
            runtime == IF Truthy(rec.runtime) THEN int(Get(rec.runtime, PyNum(0))) ELSE 0
            metadata ==
                [title |-> title,
                 release_date |-> str(Get(rec.release_date, PyStr(<<>>))),
                 year |-> year_of(rec),
                 rating |-> rating,
                 rating_category |-> rating_category(rating),
                 runtime |-> runtime,
                 length_category |-> length_category(runtime),
                 all_genres |-> all_genres,
                 director |-> director,
                 main_actors |-> main_actors,
                 movie_id |-> str(Get(rec.movie_id, PyStr(<<>>)))]
        IN  [t |-> "doc",
             page_content |-> join(Paragraph, content_parts),
             metadata |-> metadata,
             id |-> document_id(metadata)]

\* create_documents: the documents of the records, in order, without the Nones
RECURSIVE create_documents(_)
create_documents(recs) ==
    IF recs = <<>> THEN <<>>
    ELSE
        LET d == create_document_from_record(Head(recs))
        IN  (IF d.t = "doc" THEN <<d>> ELSE <<>>) \o create_documents(Tail(recs))

-----------------------------------------------------------------------------
(* The graph store and fetch_movies_from_neo4j *)

FetchLimit == 500

Sessions == {"s1", "s2"}

BaseMovie ==
    [overview |-> PyStr(<<"a">>), tagline |-> None, title |-> PyStr(<<"T">>),
     release_date |-> PyStr(<<"2", "-", "2">>), rating |-> PyNum(88),
     runtime |-> PyNum(1480), movie_id |-> PyInt(1),
     genres |-> PyList(<<<<"G">>>>), director_name |-> PyStr(<<"N">>),
     actors |-> PyList(<<<<"x">>>>)]

\* Movie nodes: with and without an overview, with and without a genre
GraphMovies ==
    {BaseMovie,
     [BaseMovie EXCEPT !.rating = PyNum(70), !.movie_id = PyInt(2)],
     [BaseMovie EXCEPT !.overview = None],
     [BaseMovie EXCEPT !.overview = PyStr(<<>>)],
     [BaseMovie EXCEPT !.overview = PyStr(<<" ">>)],
     [BaseMovie EXCEPT !.genres = PyList(<<>>)]}

\* MATCH (movie)-[:HAS_GENRE]->(genre) WHERE movie.overview IS NOT NULL AND movie.overview <> ''
matches(movie) ==
    /\ movie.genres.v # <<>>
    /\ movie.overview.t # "none"
    /\ movie.overview.v # <<>>

RECURSIVE matching(_)
matching(nodes) ==
    IF nodes = <<>> THEN <<>>
    ELSE (IF matches(Head(nodes)) THEN <<Head(nodes)>> ELSE <<>>) \o matching(Tail(nodes))

\* ORDER BY movie.vote_average DESC (rows of equal rating keep the store's order)
RECURSIVE insert_by_rating(_, _)
insert_by_rating(row, rows) ==
    IF rows = <<>> THEN <<row>>
    ELSE IF row.rating.v > Head(rows).rating.v THEN <<row>> \o rows
    ELSE <<Head(rows)>> \o insert_by_rating(row, Tail(rows))

RECURSIVE order_by_rating(_)
order_by_rating(rows) ==
    IF rows = <<>> THEN <<>>
    ELSE insert_by_rating(rows[Len(rows)], order_by_rating(SubSeq(rows, 1, Len(rows) - 1)))

fetch_movies_from_neo4j(nodes, limit) == slice_to(order_by_rating(matching(nodes)), limit)

RECURSIVE ids_of(_)
ids_of(documents) ==
    IF documents = <<>> THEN <<>> ELSE <<Head(documents).id>> \o ids_of(Tail(documents))

\* the ids of l2 that l1 does not hold yet, added to l1 (nodes are merged by id)
RECURSIVE merge_ids(_, _)
merge_ids(l1, l2) ==
    IF l2 = <<>> THEN l1
    ELSE merge_ids(IF \E i \in 1..Len(l1) : l1[i] = Head(l2) THEN l1 ELSE Append(l1, Head(l2)),
                   Tail(l2))

NoIndex == [state |-> "absent", ids |-> <<>>]

-----------------------------------------------------------------------------
(* get_retriever and create_neo4j_vector_store, one session's call at a time *)

Raised == [t |-> "raised", v |-> 0]
Instance(n) == [t |-> "store", v |-> n]

EmptyFrame ==
    [use_existing |-> TRUE, create_use_existing |-> TRUE,
     results |-> <<>>, movie_documents |-> <<>>, vector_store |-> Pending]

\* no retrieval tool has been called and main() is not running
ToolsIdle ==
    /\ ranking = <<>>
    /\ tool = Pending
    /\ tool_input = Pending
    /\ main_pc = "idle"

\* no chat session has started
ChatIdle ==
    /\ messages_agent = <<>>
    /\ turn = Pending
    /\ turns = 0

\* the state of a process in which nobody has called get_retriever
StoreIdle ==
    /\ movies = <<>>
    /\ index = NoIndex
    /\ _retriever = None
    /\ pc = [s \in Sessions |-> "idle"]
    /\ frame = [s \in Sessions |-> EmptyFrame]
    /\ trace = [s \in Sessions |-> <<>>]
    /\ returned = [s \in Sessions |-> Pending]
    /\ calls = 0
    /\ initialisations = 0
    /\ failures = 0
    /\ instances = 0

\* the index an earlier run of the process left in the store, if any
PersistedIndexes(nodes) ==
    LET ids == ids_of(create_documents(fetch_movies_from_neo4j(nodes, FetchLimit)))
    IN  {NoIndex} \cup (IF ids = <<>> THEN {} ELSE {[state |-> "ready", ids |-> ids]})

Init ==
    /\ results = <<>>
    /\ record = Pending
    /\ doc = Pending
    /\ movie_documents = Pending
    /\ ToolsIdle
    /\ ChatIdle
    /\ movies \in Strings(GraphMovies, MaxMovies)
    /\ index \in PersistedIndexes(movies)
    /\ _retriever = None
    /\ pc = [s \in Sessions |-> "idle"]
    /\ frame = [s \in Sessions |-> EmptyFrame]
    /\ trace = [s \in Sessions |-> <<>>]
    /\ returned = [s \in Sessions |-> Pending]
    /\ calls = 0
    /\ initialisations = 0
    /\ failures = 0
    /\ instances = 0

\* get_retriever(use_existing) is called
CallGetRetriever(s) ==
    /\ pc[s] = "idle"
    /\ calls < MaxCalls
    /\ \E use_existing \in BOOLEAN :
        frame' = [frame EXCEPT ![s] = [EmptyFrame EXCEPT !.use_existing = use_existing,
                                                         !.create_use_existing = use_existing]]
    /\ pc' = [pc EXCEPT ![s] = "check"]
    /\ trace' = [trace EXCEPT ![s] = <<>>]
    /\ returned' = [returned EXCEPT ![s] = Pending]
    /\ calls' = calls + 1
    /\ UNCHANGED <<docVars, toolVars, chatVars, movies, index, _retriever, initialisations, failures, instances>>

\* if _retriever is None: ... create_neo4j_vector_store(use_existing=use_existing)
retriever_is_unset(retriever) == retriever.t = "none"

CheckRetriever(s) ==
    /\ pc[s] = "check"
    /\ IF retriever_is_unset(_retriever)
       THEN /\ pc' = [pc EXCEPT ![s] = "embeddings"]
            /\ initialisations' = initialisations + 1
       ELSE /\ pc' = [pc EXCEPT ![s] = "return"]
            /\ UNCHANGED initialisations
    /\ UNCHANGED <<docVars, toolVars, chatVars, movies, index, _retriever, frame, trace, returned, calls,
                   failures, instances>>

\* an exception leaves create_neo4j_vector_store and get_retriever: the caller gets it
Raise(s) ==
    /\ pc' = [pc EXCEPT ![s] = "idle"]
    /\ returned' = [returned EXCEPT ![s] = Raised]
    /\ failures' = failures + 1

\* the load attempted whatever use_existing says
after_embeddings_always_load(use_existing) == "load"

\* the first step after the embeddings: the load when use_existing, else the rebuild
after_embeddings(use_existing) == IF use_existing THEN "load" ELSE "connect"

\* embeddings = HuggingFaceEmbeddings(model_name=model_name)
ConstructEmbeddings(s) ==
    /\ pc[s] = "embeddings"
    /\ trace' = [trace EXCEPT ![s] = Append(@, "embed")]
    /\ \/ /\ pc' = [pc EXCEPT ![s] = after_embeddings(frame[s].create_use_existing)]
          /\ UNCHANGED <<returned, failures>>
       \/ Raise(s)
    /\ UNCHANGED <<docVars, toolVars, chatVars, movies, index, _retriever, frame, calls, initialisations, instances>>

\* Neo4jVector.from_existing_index: needs the named index in the store
LoadExisting(s) ==
    /\ pc[s] = "load"
    /\ \/ /\ index.state # "absent"
          /\ trace' = [trace EXCEPT ![s] = Append(@, "load_ok")]
          /\ instances' = instances + 1
          /\ frame' = [frame EXCEPT ![s].vector_store = Instance(instances + 1)]
          /\ pc' = [pc EXCEPT ![s] = "assign"]
       \/ /\ trace' = [trace EXCEPT ![s] = Append(@, "load_fail")]
          /\ frame' = [frame EXCEPT ![s].create_use_existing = FALSE]
          /\ pc' = [pc EXCEPT ![s] = "connect"]
          /\ UNCHANGED instances
    /\ UNCHANGED <<docVars, toolVars, chatVars, movies, index, _retriever, returned, calls, initialisations, failures>>

\* graph = connect_to_neo4j(url, username, password)
Connect(s) ==
    /\ pc[s] = "connect"
    /\ ~frame[s].create_use_existing
    /\ trace' = [trace EXCEPT ![s] = Append(@, "connect")]
    /\ \/ /\ pc' = [pc EXCEPT ![s] = "fetch"]
          /\ UNCHANGED <<returned, failures>>
       \/ Raise(s)
    /\ UNCHANGED <<docVars, toolVars, chatVars, movies, index, _retriever, frame, calls, initialisations, instances>>

\* results = fetch_movies_from_neo4j(graph, limit=500); movie_documents = create_documents(results)
FetchAndCreateDocuments(s) ==
    /\ pc[s] = "fetch"
    /\ trace' = [trace EXCEPT ![s] = Append(@, "fetch")]
    /\ LET rows == fetch_movies_from_neo4j(movies, FetchLimit)
       IN  frame' = [frame EXCEPT ![s].results = rows,
                                  ![s].movie_documents = create_documents(rows)]
    /\ pc' = [pc EXCEPT ![s] = "documents"]
    /\ UNCHANGED <<docVars, toolVars, chatVars, movies, index, _retriever, returned, calls, initialisations,
                   failures, instances>>

\* the emptiness test left out
corpus_is_never_empty(documents) == FALSE

\* if not movie_documents
corpus_is_empty(documents) == documents = <<>>

\* if not movie_documents: return None
ReturnNoDocuments(s) ==
    /\ pc[s] = "documents"
    /\ corpus_is_empty(frame[s].movie_documents)
    /\ frame' = [frame EXCEPT ![s].vector_store = None]
    /\ failures' = failures + 1
    /\ pc' = [pc EXCEPT ![s] = "assign"]
    /\ UNCHANGED <<docVars, toolVars, chatVars, movies, index, _retriever, trace, returned, calls,
                   initialisations, instances>>

\* Neo4jVector.from_documents starts: the named index exists from here on
BeginWrite(s) ==
    /\ pc[s] = "documents"
    /\ ~corpus_is_empty(frame[s].movie_documents)
    /\ trace' = [trace EXCEPT ![s] = Append(@, "write")]
    /\ \/ /\ index' = [state |-> "building", ids |-> index.ids]
          /\ pc' = [pc EXCEPT ![s] = "writing"]
          /\ UNCHANGED <<returned, failures>>
       \/ /\ Raise(s)
          /\ UNCHANGED index
    /\ UNCHANGED <<docVars, toolVars, chatVars, movies, _retriever, frame, calls, initialisations, instances>>

\* Neo4jVector.from_documents ends: every document is in the index
FinishWrite(s) ==
    /\ pc[s] = "writing"
    /\ \/ /\ index' = [state |-> "ready",
                       ids |-> merge_ids(index.ids, ids_of(frame[s].movie_documents))]
          /\ instances' = instances + 1
          /\ frame' = [frame EXCEPT ![s].vector_store = Instance(instances + 1)]
          /\ pc' = [pc EXCEPT ![s] = "assign"]
          /\ UNCHANGED <<returned, failures>>
       \/ /\ Raise(s)
          /\ UNCHANGED <<index, instances, frame>>
    /\ UNCHANGED <<docVars, toolVars, chatVars, movies, _retriever, trace, calls, initialisations>>

\* _retriever = <what create_neo4j_vector_store returned>
AssignRetriever(s) ==
    /\ pc[s] = "assign"
    /\ _retriever' = frame[s].vector_store
    /\ pc' = [pc EXCEPT ![s] = "return"]
    /\ UNCHANGED <<docVars, toolVars, chatVars, movies, index, frame, trace, returned, calls, initialisations,
                   failures, instances>>

\* return _retriever
ReturnRetriever(s) ==
    /\ pc[s] = "return"
    /\ returned' = [returned EXCEPT ![s] = _retriever]
    /\ pc' = [pc EXCEPT ![s] = "idle"]
    /\ UNCHANGED <<docVars, toolVars, chatVars, movies, index, _retriever, frame, trace, calls, initialisations,
                   failures, instances>>

Next ==
    \E s \in Sessions :
        \/ CallGetRetriever(s)
        \/ CheckRetriever(s)
        \/ ConstructEmbeddings(s)
        \/ LoadExisting(s)
        \/ Connect(s)
        \/ FetchAndCreateDocuments(s)
        \/ ReturnNoDocuments(s)
        \/ BeginWrite(s)
        \/ FinishWrite(s)
        \/ AssignRetriever(s)
        \/ ReturnRetriever(s)

Spec == Init /\ [][Next]_vars

-----------------------------------------------------------------------------
(* Input records of the document builder *)

NarrowDomains ==
    [overview |-> {PyStr(<<"a">>), PyStr(<<" ">>)},
     tagline |-> {None},
     title |-> {PyStr(<<"T">>)},
     release_date |-> {PyStr(<<"2", "-", "2">>)},
     rating |-> {PyNum(88)},
     runtime |-> {PyNum(1480)},
     movie_id |-> {PyInt(1)},
     genres |-> {PyList(<<<<"G">>>>)},
     director_name |-> {PyStr(<<"N">>)},
     actors |-> {PyList(<<<<"x">>>>)}]

WideDomains ==
    [overview |-> {Missing, None} \cup {PyStr(s) : s \in Strings({" ", "a"}, MaxOverviewLen)},
     tagline |-> {Missing, None} \cup {PyStr(s) : s \in Strings({" ", "t"}, MaxTaglineLen)},
     title |-> {Missing, PyStr(<<"T">>), PyStr(<<"U">>)},
     release_date |-> {Missing, None} \cup {PyStr(s) : s \in Strings({"2", "-"}, MaxDateLen)},
     rating |-> {Missing} \cup {PyNum(r) : r \in 0..MaxRating},
     runtime |-> {Missing, None} \cup {PyNum(10 * m + f) : m \in 0..MaxRuntime, f \in {0, 5}},
     movie_id |-> {Missing, None} \cup {PyInt(n) : n \in 0..MaxMovieId},
     genres |-> {Missing} \cup {PyList(l) : l \in Strings({<<>>, <<"G">>, <<"H">>}, MaxGenres)},
     director_name |-> {Missing, None, PyStr(<<>>), PyStr(<<"N">>)},
     actors |-> {Missing} \cup {PyList(l) : l \in Strings({<<>>, <<"x">>, <<"y">>}, MaxActors)}]

PairDomains ==
    [NarrowDomains EXCEPT
        !.title = {PyStr(<<"T">>), PyStr(<<"U">>)},
        !.rating = {PyNum(49), PyNum(50), PyNum(70)},
        !.movie_id = {Missing, None, PyInt(1), PyInt(2), PyInt(12)}]

RecordsOver(D) ==
    [overview : D.overview, tagline : D.tagline, title : D.title,
     release_date : D.release_date, rating : D.rating, runtime : D.runtime,
     movie_id : D.movie_id, genres : D.genres, director_name : D.director_name,
     actors : D.actors]

\* one field ranges over its wide domain, the others over their narrow ones
Records ==
    UNION {RecordsOver([f \in DOMAIN NarrowDomains |->
                           IF f = wide THEN WideDomains[f] ELSE NarrowDomains[f]])
           : wide \in DOMAIN NarrowDomains}

PairRecords == RecordsOver(PairDomains)

Inputs ==
    {<<>>} \cup {<<r>> : r \in Records} \cup {<<a, b>> : a, b \in PairRecords}

-----------------------------------------------------------------------------
(* The document builder applied to the inputs *)

InitDoc ==
    /\ results \in Inputs
    /\ record = Pending
    /\ doc = Pending
    /\ movie_documents = Pending
    /\ StoreIdle
    /\ ToolsIdle
    /\ ChatIdle

\* one call create_document_from_record(record) on a record of the list
CallCreateDocumentFromRecord ==
    /\ record = Pending
    /\ \E i \in 1..Len(results) :
        /\ record' = results[i]
        /\ doc' = create_document_from_record(results[i])
    /\ UNCHANGED <<results, movie_documents, storeVars, toolVars, chatVars>>

\* one call create_documents(results)
CallCreateDocuments ==
    /\ movie_documents = Pending
    /\ movie_documents' = PyList(create_documents(results))
    /\ UNCHANGED <<results, record, doc, storeVars, toolVars, chatVars>>

NextDoc == CallCreateDocumentFromRecord \/ CallCreateDocuments

SpecDoc == InitDoc /\ [][NextDoc]_vars

-----------------------------------------------------------------------------
(* The retrieval tools of tools.py: the catalogue they search *)

MaxK == 2

Inception == <<"I", "n", "c", "e", "p", "t", "i", "o", "n">>
Interstellar == <<"I", "n", "t", "e", "r", "s", "t", "e", "l", "l", "a", "r">>
Titanic == <<"T", "i", "t", "a", "n", "i", "c">>
Nolan == <<"N", "o", "l", "a", "n">>
Cameron == <<"C", "a", "m", "e", "r", "o", "n">>
SciFi == <<"S", "c", "i", "-", "F", "i">>
Romance == <<"R", "o", "m", "a", "n", "c", "e">>
Horror == <<"H", "o", "r", "r", "o", "r">>

\* three Movie nodes of the graph, each with an overview and a genre
CatalogueMovies ==
    <<[BaseMovie EXCEPT !.title = PyStr(Inception), !.movie_id = PyInt(1),
                        !.release_date = PyStr(<<"2", "0", "1", "0", "-", "0", "7", "-", "1", "6">>),
                        !.rating = PyNum(88), !.genres = PyList(<<SciFi>>),
                        !.director_name = PyStr(Nolan)],
      [BaseMovie EXCEPT !.title = PyStr(Interstellar), !.movie_id = PyInt(2),
                        !.release_date = PyStr(<<"2", "0", "1", "4", "-", "1", "1", "-", "0", "7">>),
                        !.rating = PyNum(86), !.genres = PyList(<<SciFi>>),
                        !.director_name = PyStr(Nolan)],
      [BaseMovie EXCEPT !.title = PyStr(Titanic), !.movie_id = PyInt(3),
                        !.release_date = PyStr(<<"1", "9", "9", "7", "-", "1", "2", "-", "1", "9">>),
                        !.rating = PyNum(78), !.genres = PyList(<<Romance>>),
                        !.director_name = PyStr(Cameron)]>>

\* the documents create_neo4j_vector_store builds from the graph
Documents == create_documents(fetch_movies_from_neo4j(movies, FetchLimit))

\* the orders in which a similarity search can rank the documents: the embedding model decides
Rankings ==
    LET ids == ids_of(Documents)
        n == Len(ids)
    IN  {[i \in 1..n |-> ids[p[i]]] : p \in {q \in [1..n -> 1..n] : \A i, j \in 1..n : i # j => q[i] # q[j]}}

-----------------------------------------------------------------------------
(* Neo4jVector.similarity_search(query, k, filter) as the tools call it *)

\* the characters of the strings compared, in code point order
CodePoints ==
    <<" ", "-", "0", "1", "2", "3", "4", "5", "6", "7", "8", "9",
      "A", "B", "C", "D", "E", "F", "G", "H", "I", "J", "K", "L", "M",
      "N", "O", "P", "Q", "R", "S", "T", "U", "V", "W", "X", "Y", "Z", "_",
      "a", "b", "c", "d", "e", "f", "g", "h", "i", "j", "k", "l", "m",
      "n", "o", "p", "q", "r", "s", "t", "u", "v", "w", "x", "y", "z">>

ord(c) == CHOOSE i \in 1..Len(CodePoints) : CodePoints[i] = c

\* a >= b for two strings
RECURSIVE str_ge(_, _)
str_ge(a, b) ==
    IF b = <<>> THEN TRUE
    ELSE IF a = <<>> THEN FALSE
    ELSE IF Head(a) = Head(b) THEN str_ge(Tail(a), Tail(b))
    ELSE ord(Head(a)) > ord(Head(b))

\* {"$like": value}: the field contains the value, letter case included
contains(s, sub) ==
    \E i \in 0..(Len(s) - Len(sub)) : SubSeq(s, i + 1, i + Len(sub)) = sub

\* filters = {}
EmptyFilters ==
    [all_genres_like |-> None, rating_gte |-> None, rating_lte |-> None,
     year_gte |-> None, director_like |-> None]

\* if filters
has_filters(filters) == \E key \in DOMAIN filters : filters[key].t # "none"

\* a document passes the filter dict: every entry of the dict holds of its metadata
passes(document, filters) ==
    LET metadata == document.metadata
    IN  /\ filters.all_genres_like.t # "none" => contains(metadata.all_genres, filters.all_genres_like.v)
        /\ filters.rating_gte.t # "none" => metadata.rating >= filters.rating_gte.v
        /\ filters.rating_lte.t # "none" => metadata.rating <= filters.rating_lte.v
        /\ filters.year_gte.t # "none" => str_ge(metadata.year, filters.year_gte.v)
        /\ filters.director_like.t # "none" => contains(metadata.director, filters.director_like.v)

document_of(documents, id) == CHOOSE d \in {documents[i] : i \in 1..Len(documents)} : d.id = id

\* the documents of the nodes the index holds, best first, that pass the filters: the store
\* applies the filter before it orders by score and limits
RECURSIVE ranked(_, _, _, _)
ranked(documents, order, ids, filters) ==
    IF order = <<>> THEN <<>>
    ELSE LET document == document_of(documents, Head(order))
         IN  (IF /\ \E i \in 1..Len(ids) : ids[i] = Head(order)
                 /\ passes(document, filters)
              THEN <<document>> ELSE <<>>)
             \o ranked(documents, Tail(order), ids, filters)

\* the k best documents of the index among those that pass the filters
similarity_search(documents, order, ids, k, filters) ==
    slice_to(ranked(documents, order, ids, filters), k)

-----------------------------------------------------------------------------
(* get_retriever() run to its end inside a tool call *)

\* the complete runs of create_neo4j_vector_store(use_existing): what it gives back (the text
\* of the exception when it raises) and the index and instance count it leaves
create_neo4j_vector_store(use_existing) ==
    LET run(value, error, idx, n) ==
            [value |-> value, error |-> error, index |-> idx, instances |-> n]
        load ==
            IF index.state # "absent"
            THEN {run(Instance(instances + 1), "", index, instances + 1)}
            ELSE {}
        movie_documents_built == Documents
        rebuild ==
            {run(Raised, "connect", index, instances)}
            \cup (IF corpus_is_empty(movie_documents_built)
                  THEN {run(None, "", index, instances)}
                  ELSE {run(Raised, "write", index, instances),
                        run(Raised, "write", [state |-> "building", ids |-> index.ids], instances),
                        run(Instance(instances + 1), "",
                            [state |-> "ready",
                             ids |-> merge_ids(index.ids, ids_of(movie_documents_built))],
                            instances + 1)})
    IN  {run(Raised, "embeddings", index, instances)}
        \cup (IF after_embeddings(use_existing) = "load" THEN load \cup rebuild ELSE rebuild)

\* the complete runs of get_retriever(use_existing): the value given back and the global it leaves
get_retriever(use_existing) ==
    IF retriever_is_unset(_retriever)
    THEN {[value |-> r.value, error |-> r.error,
           retriever |-> IF r.value.t = "raised" THEN _retriever ELSE r.value,
           index |-> r.index, instances |-> r.instances] :
          r \in create_neo4j_vector_store(use_existing)}
    ELSE {[value |-> _retriever, error |-> "", retriever |-> _retriever,
           index |-> index, instances |-> instances]}

-----------------------------------------------------------------------------
(* retrieve_movies and search_movies_by_filters *)

OverviewMinLen == 50
OverviewCut == 300
SynopsisUnavailable == <<"S", "y", "n", "o", "p", "s", "i", "s", " ", "n", "o", "n", " ", "d", "i", "s", "p", "o", "n", "i", "b", "l", "e">>
\* "Titre :", "Film réalisé par" (without its accents), "Acteurs :", "Genres :"
SkippedPrefixes ==
    {<<"T", "i", "t", "r", "e", " ", ":">>,
     <<"F", "i", "l", "m", " ", "r", "e", "a", "l", "i", "s", "e", " ", "p", "a", "r">>,
     <<"A", "c", "t", "e", "u", "r", "s", " ", ":">>,
     <<"G", "e", "n", "r", "e", "s", " ", ":">>}

\* part.startswith(prefix)
startswith(part, prefix) ==
    /\ Len(part) >= Len(prefix)
    /\ SubSeq(part, 1, Len(prefix)) = prefix

\* s.split(sep)
RECURSIVE split(_, _)
split(s, sep) ==
    LET at(i) == SubSeq(s, i, i + Len(sep) - 1) = sep
        hits == {i \in 1..(Len(s) - Len(sep) + 1) : at(i)}
    IN  IF hits = {} THEN <<s>>
        ELSE LET first == CHOOSE i \in hits : \A j \in hits : i <= j
             IN  <<SubSeq(s, 1, first - 1)>> \o split(SubSeq(s, first + Len(sep), Len(s)), sep)

\* the synopsis shown for a document: the first long part of its content that is no labelled line
overview_of(page_content) ==
    LET content_parts == split(page_content, Paragraph)
        found == {i \in 1..Len(content_parts) :
                     /\ \A prefix \in SkippedPrefixes : ~startswith(content_parts[i], prefix)
                     /\ Len(content_parts[i]) > OverviewMinLen}
    IN  IF found = {} THEN SynopsisUnavailable
        ELSE LET overview == content_parts[CHOOSE i \in found : \A j \in found : i <= j]
             IN  IF overview # <<>> THEN slice_to(overview, OverviewCut) ELSE SynopsisUnavailable

movie_info(document) ==
    [title |-> document.metadata.title,
     overview |-> overview_of(document.page_content),
     director |-> document.metadata.director,
     actors |-> document.metadata.main_actors,
     genres |-> document.metadata.all_genres,
     rating |-> document.metadata.rating,
     runtime |-> document.metadata.runtime,
     release_date |-> document.metadata.year]

\* the text of retrieve_movies: a block per movie, the blocks in the order of the list
serialized(formatted_movies) ==
    [i \in 1..Len(formatted_movies) |->
        LET movie == formatted_movies[i]
        IN  [title |-> movie.title, year |-> movie.release_date, rating |-> movie.rating,
             runtime |-> movie.runtime, genres |-> movie.genres, director |-> movie.director,
             actors |-> movie.actors, overview |-> movie.overview]]

\* the text of search_movies_by_filters: a block per document, in the order of the results
formatted_results(documents) ==
    [i \in 1..Len(documents) |->
        [title |-> documents[i].metadata.title, year |-> documents[i].metadata.year,
         rating |-> documents[i].metadata.rating, director |-> documents[i].metadata.director,
         genres |-> documents[i].metadata.all_genres]]

\* a returned text: what kind of text it is, the exception text, the filters and the movie
\* blocks it carries
Message(kind, text, filter_info, blocks) ==
    [kind |-> kind, text |-> text, filter_info |-> filter_info, blocks |-> blocks]

\* return content, artifact
returns(content, artifact) == [t |-> "returned", content |-> content, artifact |-> artifact]

\* an exception leaves the try block
raises(text) == [t |-> "raised", content |-> Message("exception", text, <<>>, <<>>), artifact |-> <<>>]

\* the exception left to the caller
except_nothing(outcome) == outcome

\* except Exception as e: return <error text with str(e)>, []
except_exception(outcome) ==
    IF outcome.t = "raised"
    THEN returns(Message("error", outcome.content.text, <<>>, <<>>), <<>>)
    ELSE outcome

\* the filters retrieve_movies builds from its arguments
retrieve_filters(args) ==
    [EmptyFilters EXCEPT !.all_genres_like = IF Truthy(args.genre) THEN args.genre ELSE None,
                         !.rating_gte = IF Truthy(args.min_rating) THEN args.min_rating ELSE None]

\* the filters search_movies_by_filters builds from its arguments
search_filters(args) ==
    [all_genres_like |-> IF Truthy(args.genre) THEN args.genre ELSE None,
     rating_gte |-> IF Truthy(args.min_rating) THEN args.min_rating ELSE None,
     rating_lte |-> IF Truthy(args.max_rating) THEN args.max_rating ELSE None,
     year_gte |-> IF Truthy(args.min_year) THEN args.min_year ELSE None,
     director_like |-> IF Truthy(args.director) THEN args.director ELSE None]

\* the filters named in the no-match text of retrieve_movies
filter_info(args) ==
    (IF Truthy(args.genre) THEN <<[name |-> "genre", value |-> args.genre]>> ELSE <<>>)
    \o (IF Truthy(args.min_rating) THEN <<[name |-> "note min", value |-> args.min_rating]>>
        ELSE <<>>)

\* the entries of the filter dict, as the no-match text of search_movies_by_filters prints it
RECURSIVE dict_items(_, _)
dict_items(filters, keys) ==
    IF keys = <<>> THEN <<>>
    ELSE (IF filters[Head(keys)].t # "none"
          THEN <<[name |-> Head(keys), value |-> filters[Head(keys)]]>> ELSE <<>>)
         \o dict_items(filters, Tail(keys))

FilterKeys == <<"all_genres_like", "rating_gte", "rating_lte", "year_gte", "director_like">>

\* the number of documents asked of the index: twice k under filters
requested(k, filters) == IF has_filters(filters) THEN k * 2 ELSE k

\* the results kept whatever their number
limit_results_to_all(found, k) == found

\* results = results[:k]
limit_results(found, k) == slice_to(found, k)

\* the search of a tool call: none made, or one with the k asked and the index it met
NoSearch ==
    [made |-> FALSE, query |-> "", k |-> 0, filters |-> EmptyFilters, state |-> "none",
     ids |-> <<>>]
Search(query, k, filters, idx) ==
    [made |-> TRUE, query |-> query, k |-> k, filters |-> filters, state |-> idx.state,
     ids |-> idx.ids]

\* the query argument of retrieve_movies and the fixed query of search_movies_by_filters
UserQuery == "query"
PlaceholderQuery == "film"

\* the try block of retrieve_movies, given the run of get_retriever() and whether the search
\* raises (the backend is unreachable or rejects the filter dict)
retrieve_movies_body(args, documents, order, g, search_raises) ==
    IF g.value.t = "raised" THEN raises(g.error)
    ELSE IF retriever_is_unset(g.value) THEN returns(Message("no_retriever", "", <<>>, <<>>), <<>>)
    ELSE IF search_raises THEN raises("search")
    ELSE
        LET filters == retrieve_filters(args)
            found == similarity_search(documents, order, g.index.ids,
                                       requested(args.k, filters), filters)
        IN  IF found = <<>>
            THEN returns(Message("no_match", "", filter_info(args), <<>>), <<>>)
            ELSE
                LET limited == limit_results(found, args.k)
                    formatted_movies == [i \in 1..Len(limited) |-> movie_info(limited[i])]
                IN  returns(Message("movies", "", <<>>, serialized(formatted_movies)),
                            formatted_movies)

retrieve_movies(args, documents, order, g, search_raises) ==
    except_exception(retrieve_movies_body(args, documents, order, g, search_raises))

\* the try block of search_movies_by_filters
search_movies_by_filters_body(args, documents, order, g, search_raises) ==
    IF g.value.t = "raised" THEN raises(g.error)
    ELSE IF retriever_is_unset(g.value) THEN returns(Message("no_retriever", "", <<>>, <<>>), <<>>)
    ELSE
        LET filters == search_filters(args)
        IN  IF ~has_filters(filters) THEN returns(Message("no_filters", "", <<>>, <<>>), <<>>)
            ELSE IF search_raises THEN raises("search")
            ELSE
                LET found == similarity_search(documents, order, g.index.ids, args.k, filters)
                IN  IF found = <<>>
                    THEN returns(Message("no_match", "", dict_items(filters, FilterKeys), <<>>),
                                 <<>>)
                    ELSE returns(Message("movies", "", <<>>, formatted_results(found)), <<>>)

search_movies_by_filters(args, documents, order, g, search_raises) ==
    except_exception(search_movies_by_filters_body(args, documents, order, g, search_raises))

\* the search a call makes, if it gets that far
search_of(name, args, g) ==
    LET filters == IF name = "retrieve_movies" THEN retrieve_filters(args) ELSE search_filters(args)
        k == IF name = "retrieve_movies" THEN requested(args.k, filters) ELSE args.k
        query == IF name = "retrieve_movies" THEN UserQuery ELSE PlaceholderQuery
    IN  IF \/ g.value.t # "store"
           \/ name = "search_movies_by_filters" /\ ~has_filters(filters)
        THEN NoSearch
        ELSE Search(query, k, filters, g.index)

\* the arguments the agent passes: every genre with every minimum rating, and each other
\* filter on its own or with a rating bound
NoArgs ==
    [genre |-> None, min_rating |-> None, max_rating |-> None, min_year |-> None,
     director |-> None]

ToolArgs ==
    LET with_k(filters) ==
            {[genre |-> f.genre, min_rating |-> f.min_rating, max_rating |-> f.max_rating,
              min_year |-> f.min_year, director |-> f.director, k |-> k] :
             f \in filters, k \in 1..MaxK}
    IN  with_k({[NoArgs EXCEPT !.genre = genre, !.min_rating = min_rating] :
                    genre \in {None, PyStr(SciFi), PyStr(Romance), PyStr(Horror)},
                    min_rating \in {None, PyNum(0), PyNum(90)}}
               \cup {[NoArgs EXCEPT !.director = PyStr(director), !.max_rating = max_rating] :
                        director \in {Nolan, <<"n", "o", "l", "a", "n">>},
                        max_rating \in {None, PyNum(0)}}
               \cup {[NoArgs EXCEPT !.min_rating = min_rating, !.max_rating = PyNum(87)] :
                        min_rating \in {None, PyNum(80)}}
               \cup {[NoArgs EXCEPT !.min_year = PyStr(<<"2", "0", "1", "0">>)]})

\* one call of a tool, from its first line to its return
ToolCall(name, args, order, g, search_raises) ==
    /\ _retriever' = g.retriever
    /\ index' = g.index
    /\ instances' = g.instances
    /\ LET documents == Documents
           search == search_of(name, args, g)
       IN  tool' = [t |-> "call", name |-> name, args |-> args,
                    exception |-> IF g.value.t = "raised" THEN g.error
                                  ELSE IF search.made /\ search_raises THEN "search"
                                  ELSE "",
                    search |-> search,
                    outcome |-> IF name = "retrieve_movies"
                                THEN retrieve_movies(args, documents, order, g, search_raises)
                                ELSE search_movies_by_filters(args, documents, order, g,
                                                              search_raises)]
    /\ UNCHANGED <<docVars, chatVars, movies, pc, frame, trace, returned, calls, initialisations,
                   failures, ranking, tool_input, main_pc>>

\* retrieve_movies(query, genre, min_rating, k) is called
RetrieveMovies ==
    \E g \in get_retriever(TRUE), search_raises \in BOOLEAN :
        ToolCall("retrieve_movies",
                 [tool_input EXCEPT !.max_rating = None, !.min_year = None, !.director = None],
                 ranking, g, search_raises)

\* search_movies_by_filters(genre, min_rating, max_rating, min_year, director, k) is called
SearchMoviesByFilters ==
    \E g \in get_retriever(TRUE), search_raises \in BOOLEAN :
        ToolCall("search_movies_by_filters", tool_input, ranking, g, search_raises)

\* python vector_store.py: main() rebuilds the index, up to the start of the write
MainBeginRebuild ==
    /\ main_pc = "idle"
    /\ \/ /\ index' = [state |-> "building", ids |-> index.ids]
          /\ main_pc' = "writing"
       \/ /\ main_pc' = "ended"
          /\ UNCHANGED index
    /\ UNCHANGED <<docVars, chatVars, movies, _retriever, pc, frame, trace, returned, calls,
                   initialisations, failures, instances, ranking, tool, tool_input>>

\* main(): the write ends, with every document in the index or with an exception
MainFinishRebuild ==
    /\ main_pc = "writing"
    /\ main_pc' = "ended"
    /\ \/ index' = [state |-> "ready", ids |-> merge_ids(index.ids, ids_of(Documents))]
       \/ UNCHANGED index
    /\ UNCHANGED <<docVars, chatVars, movies, _retriever, pc, frame, trace, returned, calls,
                   initialisations, failures, instances, ranking, tool, tool_input>>

Repeated(c, n) == [i \in 1..n |-> c]

\* the catalogue with the first movie's overview at and beyond the lengths the tool tests
\* (50 and 300 characters), without a tagline, with a short one and with a long one
OverviewCatalogues ==
    {[CatalogueMovies EXCEPT ![1].overview = PyStr(Repeated("o", length)), ![1].tagline = tagline] :
        length \in {OverviewMinLen, OverviewMinLen + 1, OverviewCut + 1},
        tagline \in {None, PyStr(<<"t">>), PyStr(Repeated("t", OverviewMinLen + 1))}}

\* every argument on the plain catalogue, a call without filters on the others
InitTools ==
    /\ results = <<>>
    /\ record = Pending
    /\ doc = Pending
    /\ movie_documents = Pending
    /\ ChatIdle
    /\ \/ /\ movies = CatalogueMovies
          /\ tool_input \in ToolArgs
       \/ /\ movies \in OverviewCatalogues
          /\ tool_input \in {args \in ToolArgs :
                                 /\ \A key \in DOMAIN NoArgs : args[key] = None
                                 /\ args.k = 1}
    /\ ranking \in Rankings
    /\ tool = Pending
    /\ main_pc = "idle"
    /\ index \in PersistedIndexes(movies)
    /\ _retriever = None
    /\ pc = [s \in Sessions |-> "idle"]
    /\ frame = [s \in Sessions |-> EmptyFrame]
    /\ trace = [s \in Sessions |-> <<>>]
    /\ returned = [s \in Sessions |-> Pending]
    /\ calls = 0
    /\ initialisations = 0
    /\ failures = 0
    /\ instances = 0

NextTools == RetrieveMovies \/ SearchMoviesByFilters \/ MainBeginRebuild \/ MainFinishRebuild

SpecTools == InitTools /\ [][NextTools]_vars

-----------------------------------------------------------------------------
(* What the claims say about a record, stated on the record's own fields *)

Called == record # Pending
Built == Called /\ doc.t = "doc"
DocumentsBuilt == movie_documents # Pending

\* missing, None, empty or only whitespace
IsBlank(value) ==
    \/ value.t \in {"missing", "none"}
    \/ value.t = "str" /\ \A i \in 1..Len(value.v) : value.v[i] \in {" ", "\t", "\n"}

IndexableIn(recs) == {i \in 1..Len(recs) : ~IsBlank(recs[i].overview)}

\* the rating of a record in tenths, 0 when it has none
RatingOf(rec) == IF rec.rating.t = "missing" THEN 0 ELSE rec.rating.v

\* the runtime of a record in tenths of a minute, 0 when it has none
RuntimeOf(rec) == IF rec.runtime.t \in {"missing", "none"} THEN 0 ELSE rec.runtime.v

BucketRank(bucket) == CASE bucket = "low" -> 0 [] bucket = "medium" -> 1 [] bucket = "high" -> 2

\* the part of s before its first "-" (all of s when it has none)
BeforeFirstDash(s) ==
    LET dashes == {i \in 1..Len(s) : s[i] = "-"}
        first == IF dashes = {} THEN Len(s) + 1
                 ELSE CHOOSE i \in dashes : \A j \in dashes : i <= j
    IN  SubSeq(s, 1, first - 1)

IsAbsent(value) ==
    \/ value.t \in {"missing", "none"}
    \/ value.t \in {"str", "list"} /\ value.v = <<>>

\* the names of a list that are not empty, in their order
RECURSIVE NamedIn(_)
NamedIn(l) ==
    IF Len(l) = 0 THEN <<>>
    ELSE LET before == NamedIn(SubSeq(l, 1, Len(l) - 1))
         IN  IF Len(l[Len(l)]) > 0 THEN Append(before, l[Len(l)]) ELSE before

Named(value) == IF value.t = "missing" THEN <<>> ELSE NamedIn(value.v)

\* the names separated by ", "
RECURSIVE Listed(_)
Listed(names) ==
    IF Len(names) = 0 THEN <<>>
    ELSE IF Len(names) = 1 THEN names[1]
    ELSE Listed(SubSeq(names, 1, Len(names) - 1)) \o <<",", " ">> \o names[Len(names)]

-----------------------------------------------------------------------------
(* C1: a record whose overview is missing, None, empty or only whitespace  *)
(* gets no document from create_document_from_record, and create_documents *)
(* returns no more documents than there are records with a real overview.  *)
C1_BlankOverviewNoDocument ==
    /\ (Called /\ IsBlank(record.overview)) => doc = None
    /\ DocumentsBuilt =>
          Len(movie_documents.v) <= Cardinality(IndexableIn(results))

C1_Witness ==
    /\ Called /\ record.overview = PyStr(<<" ", " ">>) /\ doc = None
    /\ results = <<record>> /\ movie_documents = PyList(<<>>)

(* C2: the document id depends on the movie identifier alone: two indexed  *)
(* records have the same document id exactly when they have the same movie *)
(* identifier, whatever their titles and other fields.                     *)
C2_DocumentIdFromMovieIdOnly ==
    (DocumentsBuilt /\ Len(results) = 2 /\ Len(movie_documents.v) = 2) =>
        ((results[1].movie_id = results[2].movie_id)
            <=> (movie_documents.v[1].id = movie_documents.v[2].id))

C2_Witness ==
    /\ DocumentsBuilt /\ Len(results) = 2 /\ Len(movie_documents.v) = 2
    /\ results[1].title = results[2].title
    /\ results[1].movie_id = PyInt(1) /\ results[2].movie_id = PyInt(12)
    /\ results[1].rating # results[2].rating
    /\ movie_documents.v[1].id # movie_documents.v[2].id

(* C3: every indexed record gets exactly one rating bucket: low below 5,   *)
(* medium from 5 up to but not including 7, high from 7 (5.0 is medium,    *)
(* 7.0 is high), and a higher rating never gets a lower bucket.            *)
C3_RatingBucket ==
    /\ Built =>
          /\ doc.metadata.rating_category \in {"low", "medium", "high"}
          /\ (doc.metadata.rating_category = "low") <=> (RatingOf(record) < 50)
          /\ (doc.metadata.rating_category = "medium")
                <=> (50 <= RatingOf(record) /\ RatingOf(record) < 70)
          /\ (doc.metadata.rating_category = "high") <=> (RatingOf(record) >= 70)
    /\ (DocumentsBuilt /\ Len(results) = 2 /\ Len(movie_documents.v) = 2
            /\ RatingOf(results[1]) <= RatingOf(results[2])) =>
          BucketRank(movie_documents.v[1].metadata.rating_category)
              <= BucketRank(movie_documents.v[2].metadata.rating_category)

C3_Witness ==
    /\ Built /\ record.rating = PyNum(70) /\ doc.metadata.rating_category = "high"

(* C4: every indexed record gets length bucket short below 90 minutes,     *)
(* medium from 90 up to but not including 120, long from 120; a record     *)
(* with a missing, None or zero runtime gets runtime 0 and bucket short.   *)
C4_LengthBucket ==
    Built =>
        /\ (doc.metadata.length_category = "short") <=> (RuntimeOf(record) < 900)
        /\ (doc.metadata.length_category = "medium")
              <=> (900 <= RuntimeOf(record) /\ RuntimeOf(record) < 1200)
        /\ (doc.metadata.length_category = "long") <=> (RuntimeOf(record) >= 1200)
        /\ RuntimeOf(record) = 0 =>
              (doc.metadata.runtime = 0 /\ doc.metadata.length_category = "short")

C4_Witness ==
    /\ Built /\ record.runtime = PyNum(1195)
    /\ doc.metadata.runtime = 119 /\ doc.metadata.length_category = "medium"

(* C5: the year of every indexed record is the part of its release date    *)
(* before the first "-", and the literal Unknown when the release date is  *)
(* absent: key missing, None or the empty string.                          *)
C5_YearFromReleaseDate ==
    Built =>
        doc.metadata.year =
            IF IsAbsent(record.release_date) THEN <<"U", "n", "k", "n", "o", "w", "n">>
            ELSE BeforeFirstDash(record.release_date.v)

(* C6: absent optional fields are normalised: an absent director, an empty *)
(* or absent genre list and an empty or absent actor list each become the  *)
(* literal Unknown, and the actor string names the first 5 non-empty       *)
(* actors at most, in their original order.                                *)
C6_OptionalFieldsNormalised ==
    Built =>
        /\ IsAbsent(record.director_name) =>
              doc.metadata.director = <<"U", "n", "k", "n", "o", "w", "n">>
        /\ IsAbsent(record.genres) =>
              doc.metadata.all_genres = <<"U", "n", "k", "n", "o", "w", "n">>
        /\ IsAbsent(record.actors) =>
              doc.metadata.main_actors = <<"U", "n", "k", "n", "o", "w", "n">>
        /\ LET named == Named(record.actors)
               shown == IF Len(named) < 5 THEN Len(named) ELSE 5
           IN  named # <<>> => doc.metadata.main_actors = Listed(SubSeq(named, 1, shown))

C6_Witness ==
    /\ Built
    /\ record.actors = PyList(<<<<"x">>, <<>>, <<"y">>, <<"x">>, <<"y">>, <<"y">>>>)
    /\ doc.metadata.main_actors = Listed(<<<<"x">>, <<"y">>, <<"x">>, <<"y">>, <<"y">>>>)

-----------------------------------------------------------------------------
(* What the claims say about one call of get_retriever *)

Has(tr, op) == \E i \in 1..Len(tr) : tr[i] = op

\* the call's create_neo4j_vector_store has returned or raised
CreateEnded(s) == pc[s] \in {"assign", "return", "idle"}

\* no Movie node of the store has both a genre and an overview that is not blank
NoIndexableMovie ==
    \A i \in 1..Len(movies) : Len(movies[i].genres.v) = 0 \/ IsBlank(movies[i].overview)

(* C7: when the graph store yields no indexable document, the rebuild ends *)
(* with the empty-corpus outcome (None, never an index object), it writes  *)
(* nothing to the store, and the store never holds a finished empty index. *)
C7_EmptyCorpusNoIndex ==
    /\ \A s \in Sessions :
          (Has(trace[s], "fetch") /\ NoIndexableMovie) =>
              /\ ~Has(trace[s], "write")
              /\ pc[s] # "writing"
              /\ CreateEnded(s) => frame[s].vector_store = None
    /\ index.state = "ready" => Len(index.ids) > 0

C7_Witness ==
    \E s \in Sessions :
        /\ pc[s] = "idle" /\ trace[s] = <<"embed", "load_fail", "connect", "fetch">>
        /\ Len(frame[s].results) > 0 /\ Len(frame[s].movie_documents) = 0
        /\ returned[s] = None /\ index.state = "absent"

(* C8: with use_existing the load of the named index is the first backend  *)
(* operation; a successful load is the only one and its index is returned  *)
(* without a fetch or a write; the rebuild follows a failed load only.     *)
(* Without use_existing no load is attempted.                              *)
C8_LoadBeforeRebuild ==
    \A s \in Sessions :
        LET tr == trace[s]
            use_existing == frame[s].use_existing
        IN  /\ Len(tr) >= 1 => tr[1] = "embed"
            /\ (use_existing /\ Len(tr) >= 2) => tr[2] \in {"load_ok", "load_fail"}
            /\ Has(tr, "load_ok") =>
                  /\ tr = <<"embed", "load_ok">>
                  /\ CreateEnded(s) /\ frame[s].vector_store.t = "store"
            /\ (use_existing /\ (Has(tr, "connect") \/ Has(tr, "fetch") \/ Has(tr, "write"))) =>
                  tr[2] = "load_fail"
            /\ ~use_existing => ~(Has(tr, "load_ok") \/ Has(tr, "load_fail"))

C8_Witness ==
    \E s \in Sessions :
        /\ frame[s].use_existing /\ pc[s] = "assign"
        /\ trace[s] = <<"embed", "load_fail", "connect", "fetch", "write">>
        /\ frame[s].vector_store.t = "store"

(* C9: whatever the interleaving of the sessions' get_retriever calls, the *)
(* initialisation runs at most once and every caller that gets an index    *)
(* gets the same instance.                                                 *)
C9_InitialisedAtMostOnce ==
    /\ initialisations <= 1
    /\ \A s, t \in Sessions :
          (returned[s].t = "store" /\ returned[t].t = "store") => returned[s] = returned[t]

(* C10: a failed initialisation reaches the caller (as the exception or as *)
(* None), no later get_retriever call runs the initialisation again, and   *)
(* _retriever holds None or a fully constructed index, nothing else.       *)
C10_FailureNotRetried ==
    [][/\ failures > 0 => initialisations' = initialisations
       /\ failures' > failures =>
             \E s \in Sessions : returned'[s] = Raised \/ frame'[s].vector_store = None
       /\ _retriever'.t \in {"none", "store"}]_vars

-----------------------------------------------------------------------------
(* chatbot.py: the script runs of one browser session *)

MaxTurns == 3

Prompts == {"p1", "p2"}
ExampleQueries == {"x1", "x2"}
Answers == {"a1"}
Errors == {"e1", "e2"}

Entry(role, kind, text) == [role |-> role, kind |-> kind, text |-> text]
Greeting == Entry("assistant", "greeting", "")
Cleared == Entry("assistant", "cleared", "")
UserEntry(prompt) == Entry("user", "prompt", prompt)
AnswerEntry(full_response) == Entry("assistant", "answer", full_response)
\* error_message = f"... {str(e)}"
ErrorEntry(e) == Entry("assistant", "error", e)

\* where the script stands, the exception the last invocation raised and what the placeholder shows
Turn(at, raised, shown) == [t |-> "turn", pc |-> at, raised |-> raised, shown |-> shown]

\* the exception dropped without a trace in the history
handle_exception_silently(messages, e) == messages

\* except Exception as e: ... st.session_state.messages_agent.append(<error message>)
handle_exception(messages, e) == Append(messages, ErrorEntry(e))

\* the first script run: the history starts with the greeting, then the agent is built on
\* get_retriever(use_existing=True); st.stop() when that fails
StartSession ==
    /\ turn = Pending
    /\ messages_agent' = <<Greeting>>
    /\ \E g \in get_retriever(TRUE) :
        /\ _retriever' = g.retriever
        /\ index' = g.index
        /\ instances' = g.instances
        /\ \/ /\ g.value.t = "store"
              /\ turn' = Turn("awaiting", "", "")
           \/ turn' = Turn("stopped", "", "")
    /\ UNCHANGED <<docVars, toolVars, movies, pc, frame, trace, returned, calls, initialisations,
                   failures, turns>>

\* if prompt := st.chat_input(...): the user entry is appended and the agent is invoked
SubmitPrompt ==
    /\ turn.t = "turn"
    /\ turn.pc = "awaiting"
    /\ turns < MaxTurns
    /\ \E prompt \in Prompts : messages_agent' = Append(messages_agent, UserEntry(prompt))
    /\ turn' = Turn("invoking", "", "")
    /\ turns' = turns + 1
    /\ UNCHANGED <<docVars, storeVars, toolVars>>

\* agent.invoke returns: the output is shown and appended
AgentResponds ==
    /\ turn.t = "turn"
    /\ turn.pc = "invoking"
    /\ \E full_response \in Answers :
        /\ messages_agent' = Append(messages_agent, AnswerEntry(full_response))
        /\ turn' = Turn("awaiting", "", full_response)
    /\ UNCHANGED <<docVars, storeVars, toolVars, turns>>

\* agent.invoke raises: the except block shows the error and appends it
AgentRaises ==
    /\ turn.t = "turn"
    /\ turn.pc = "invoking"
    /\ \E e \in Errors :
        /\ messages_agent' = handle_exception(messages_agent, e)
        /\ turn' = Turn("awaiting", e, e)
    /\ UNCHANGED <<docVars, storeVars, toolVars, turns>>

\* agent.invoke never returns: the executor is built without a time limit
AgentHangs ==
    /\ turn.t = "turn"
    /\ turn.pc = "invoking"
    /\ turn' = Turn("hung", "", "")
    /\ UNCHANGED <<docVars, storeVars, toolVars, messages_agent, turns>>

\* the reset button: the history is replaced by one assistant entry, st.rerun()
ResetHistory ==
    /\ turn.t = "turn"
    /\ turn.pc = "awaiting"
    /\ messages_agent # <<Cleared>>
    /\ messages_agent' = <<Cleared>>
    /\ UNCHANGED <<docVars, storeVars, toolVars, turn, turns>>

\* an example button: the query is appended as a user entry, st.rerun()
ClickExample ==
    /\ turn.t = "turn"
    /\ turn.pc = "awaiting"
    /\ turns < MaxTurns
    /\ \E query \in ExampleQueries : messages_agent' = Append(messages_agent, UserEntry(query))
    /\ turns' = turns + 1
    /\ UNCHANGED <<docVars, storeVars, toolVars, turn>>

InitChat ==
    /\ results = <<>>
    /\ record = Pending
    /\ doc = Pending
    /\ movie_documents = Pending
    /\ ToolsIdle
    /\ movies = CatalogueMovies
    /\ index \in PersistedIndexes(movies)
    /\ _retriever = None
    /\ pc = [s \in Sessions |-> "idle"]
    /\ frame = [s \in Sessions |-> EmptyFrame]
    /\ trace = [s \in Sessions |-> <<>>]
    /\ returned = [s \in Sessions |-> Pending]
    /\ calls = 0
    /\ initialisations = 0
    /\ failures = 0
    /\ instances = 0
    /\ messages_agent = <<>>
    /\ turn = Pending
    /\ turns = 0

NextChat ==
    \/ StartSession
    \/ SubmitPrompt
    \/ AgentResponds
    \/ AgentRaises
    \/ AgentHangs
    \/ ResetHistory
    \/ ClickExample

SpecChat == InitChat /\ [][NextChat]_vars

\* the script thread of the session is scheduled: an invocation under way goes on to one of
\* its ends
SpecChatFair == SpecChat /\ WF_vars(AgentResponds \/ AgentRaises \/ AgentHangs)

-----------------------------------------------------------------------------
(* What the claims say about a tool call, stated on the call and on the store *)

ToolReturned(name) == tool.t = "call" /\ tool.name = name /\ tool.outcome.t = "returned"

MoviesReturned == tool.t = "call" /\ tool.outcome.t = "returned" /\ tool.outcome.content.kind = "movies"

\* the titles of the movies in the text and in the candidate list of the call
ShownTitles == [i \in 1..Len(tool.outcome.content.blocks) |-> tool.outcome.content.blocks[i].title]
ListedTitles == [i \in 1..Len(tool.outcome.artifact) |-> tool.outcome.artifact[i].title]

\* the place of a title in the ranking of the query
RankOfTitle(title) ==
    LET documents == Documents
    IN  CHOOSE p \in 1..Len(ranking) : document_of(documents, ranking[p]).metadata.title = title

BestFirst(titles) ==
    \A i, j \in 1..Len(titles) : i < j => RankOfTitle(titles[i]) < RankOfTitle(titles[j])

-----------------------------------------------------------------------------
(* C11 *)

\* C11: for a positive k, the movies a tool returns are at most k, they come in the ranked
\* order of the index, best first, and the candidate list of retrieve_movies names the same
\* movies in the same order as its text.
C11_AtMostKBestFirst ==
    MoviesReturned =>
        /\ Len(ShownTitles) <= tool.args.k
        /\ BestFirst(ShownTitles)
        /\ tool.name = "retrieve_movies" => ListedTitles = ShownTitles

\* a filtered retrieve_movies call whose search found more than k movies and returned k of them
C11_Witness ==
    /\ MoviesReturned
    /\ tool.name = "retrieve_movies"
    /\ tool.args.genre = PyStr(SciFi)
    /\ tool.args.k = 1
    /\ index.state = "ready"
    /\ Len(tool.outcome.artifact) = 1
    /\ Len(ShownTitles) = 1

-----------------------------------------------------------------------------
(* C12 *)

\* the titles an unfiltered search of the same query gives for a bound n, on the index the call met
UnfilteredTitles(n) ==
    LET found == similarity_search(Documents, ranking, tool.search.ids, n, EmptyFilters)
    IN  {found[i].metadata.title : i \in 1..Len(found)}

\* C12: every candidate of a filtered retrieve_movies call is also among the results of the
\* unfiltered similarity search of the same query with the bound 2k.
C12_FilteredWithinUnfiltered ==
    (MoviesReturned /\ tool.name = "retrieve_movies" /\ has_filters(tool.search.filters)) =>
        \A i \in 1..Len(ListedTitles) : ListedTitles[i] \in UnfilteredTitles(2 * tool.args.k)

-----------------------------------------------------------------------------
(* C13 *)

UpperCase ==
    <<"A", "B", "C", "D", "E", "F", "G", "H", "I", "J", "K", "L", "M",
      "N", "O", "P", "Q", "R", "S", "T", "U", "V", "W", "X", "Y", "Z">>
LowerCase ==
    <<"a", "b", "c", "d", "e", "f", "g", "h", "i", "j", "k", "l", "m",
      "n", "o", "p", "q", "r", "s", "t", "u", "v", "w", "x", "y", "z">>

Lowered(s) ==
    [i \in 1..Len(s) |->
        IF \E j \in 1..Len(UpperCase) : UpperCase[j] = s[i]
        THEN LowerCase[CHOOSE j \in 1..Len(UpperCase) : UpperCase[j] = s[i]]
        ELSE s[i]]

ContainsIgnoringCase(s, sub) ==
    \E i \in 0..(Len(s) - Len(sub)) : SubSeq(Lowered(s), i + 1, i + Len(sub)) = Lowered(sub)

Supplied(argument) == argument.t # "none"

\* C13: every movie a tool returns satisfies every filter the call supplied, whatever the
\* value: the genre and the director are contained in the movie's, whatever the case,
\* min_rating <= rating <= max_rating, and the year string is at least min_year.
C13_EveryFilterSatisfied ==
    MoviesReturned =>
        \A i \in 1..Len(tool.outcome.content.blocks) :
            LET movie == tool.outcome.content.blocks[i]
            IN  /\ Supplied(tool.args.genre) => ContainsIgnoringCase(movie.genres, tool.args.genre.v)
                /\ Supplied(tool.args.min_rating) => movie.rating >= tool.args.min_rating.v
                /\ Supplied(tool.args.max_rating) => movie.rating <= tool.args.max_rating.v
                /\ Supplied(tool.args.min_year) => str_ge(movie.year, tool.args.min_year.v)
                /\ Supplied(tool.args.director) =>
                       ContainsIgnoringCase(movie.director, tool.args.director.v)

-----------------------------------------------------------------------------
(* C14 *)

ByRatingDescending(blocks) ==
    \A i, j \in 1..Len(blocks) : i < j => blocks[i].rating >= blocks[j].rating

\* the call search_movies_by_filters(director="Nolan") went through on the whole catalogue
NolanSearched ==
    /\ ToolReturned("search_movies_by_filters")
    /\ tool.args.director = PyStr(Nolan)
    /\ \A key \in {"genre", "min_rating", "max_rating", "min_year"} : ~Supplied(tool.args[key])
    /\ tool.args.k >= 2
    /\ tool.exception = ""
    /\ tool.search.made
    /\ Len(tool.search.ids) = Len(CatalogueMovies)

\* C14: on the catalogue Inception (Nolan, 8.8), Interstellar (Nolan, 8.6), Titanic (Cameron,
\* 7.8), search_movies_by_filters(director="Nolan") returns exactly Inception and
\* Interstellar, and the results of a filter-only search come by rating, highest first.
C14_NolanByRating ==
    /\ NolanSearched =>
           /\ MoviesReturned
           /\ Len(ShownTitles) = 2
           /\ {ShownTitles[i] : i \in 1..Len(ShownTitles)} = {Inception, Interstellar}
    /\ (MoviesReturned /\ tool.name = "search_movies_by_filters") =>
           ByRatingDescending(tool.outcome.content.blocks)

-----------------------------------------------------------------------------
(* C15 *)

\* the no-match text names the filter with the value
NamesFilter(name, argument) ==
    \E i \in 1..Len(tool.outcome.content.filter_info) :
        /\ tool.outcome.content.filter_info[i].name = name
        /\ tool.outcome.content.filter_info[i].value = argument

\* a retrieve_movies call searched without an exception and found nothing
RetrieveFoundNothing ==
    /\ ToolReturned("retrieve_movies")
    /\ tool.exception = ""
    /\ tool.search.made
    /\ tool.outcome.content.blocks = <<>>

\* C15: a retrieve_movies call that finds nothing returns an empty candidate list and a
\* no-match text, not an error text, that names every filter the call supplied (the genre,
\* the min_rating with its value).
C15_NoMatchNamesFilters ==
    RetrieveFoundNothing =>
        /\ tool.outcome.artifact = <<>>
        /\ tool.outcome.content.kind = "no_match"
        /\ Supplied(tool.args.genre) => NamesFilter("genre", tool.args.genre)
        /\ Supplied(tool.args.min_rating) => NamesFilter("note min", tool.args.min_rating)

-----------------------------------------------------------------------------
(* C17 *)

\* C17: no tool call ends with an exception for its caller: an exception raised by the
\* retriever lookup or by the search comes back as an error text that carries the text of the
\* exception, with an empty candidate list, and never as a no-match text.
C17_ExceptionsReturnedAsText ==
    tool.t = "call" =>
        /\ tool.outcome.t = "returned"
        /\ tool.exception # "" =>
               /\ tool.outcome.content.kind = "error"
               /\ tool.outcome.content.text = tool.exception
               /\ tool.outcome.artifact = <<>>

\* the search of a call raised and the call returned the error text
C17_Witness ==
    /\ tool.t = "call"
    /\ tool.exception = "search"
    /\ tool.search.made
    /\ tool.outcome.t = "returned"
    /\ tool.outcome.content.kind = "error"

-----------------------------------------------------------------------------
(* C18 *)

\* C18: a retrieval call is read-only: it leaves the index, the graph store and the
\* process-wide retriever as they were.
C18_RetrievalReadOnly ==
    [][tool' # tool => (index' = index /\ movies' = movies /\ _retriever' = _retriever)]_vars

-----------------------------------------------------------------------------
(* C19 *)

\* C19: no search of a retrieval call meets an index that a rebuild is writing.
C19_NoSearchDuringRebuild ==
    (tool.t = "call" /\ tool.search.made) => tool.search.state # "building"

-----------------------------------------------------------------------------
(* C16 *)

\* C16: when the agent invocation of a turn raises, the exception is caught, the error is
\* shown, exactly one assistant entry carrying it is appended after the user's entry, and
\* the session awaits the next turn.
C16_ExceptionEndsTurnWithOneEntry ==
    [][(turn.t = "turn" /\ turn.pc = "invoking" /\ turn'.raised # "") =>
           /\ messages_agent[Len(messages_agent)].role = "user"
           /\ messages_agent' = Append(messages_agent, ErrorEntry(turn'.raised))
           /\ turn'.shown = turn'.raised
           /\ turn'.pc = "awaiting"]_vars

\* a turn whose invocation raised: the history ends with the user's entry and the error
C16_Witness ==
    /\ turn.t = "turn"
    /\ turn.raised # ""
    /\ turn.pc = "awaiting"
    /\ Len(messages_agent) >= 3
    /\ messages_agent[Len(messages_agent)] = ErrorEntry(turn.raised)
    /\ messages_agent[Len(messages_agent) - 1].role = "user"
    /\ turns < MaxTurns

-----------------------------------------------------------------------------
(* C20 *)

\* C20: every turn ends: once the agent is invoked the session comes back to awaiting input,
\* also when a call of the turn hangs.
C20_TurnEnds ==
    (turn.t = "turn" /\ turn.pc = "invoking") ~> (turn.t = "turn" /\ turn.pc = "awaiting")

-----------------------------------------------------------------------------
(* C21 *)

\* C21: retrieve_movies asks the index for exactly 2k documents when the call supplies a
\* genre or a min_rating, for exactly k when it supplies neither, and returns at most the
\* first k.
C21_TwiceKUnderFilters ==
    (tool.t = "call" /\ tool.name = "retrieve_movies" /\ tool.search.made) =>
        /\ tool.search.k = IF Supplied(tool.args.genre) \/ Supplied(tool.args.min_rating)
                           THEN 2 * tool.args.k
                           ELSE tool.args.k
        /\ Len(tool.outcome.artifact) <= tool.args.k

-----------------------------------------------------------------------------
(* C22 *)

\* the overview text of the Movie node with the title
OverviewOfTitle(title) ==
    LET movie == CHOOSE m \in {movies[i] : i \in 1..Len(movies)} : m.title.v = title
    IN  movie.overview.v

FirstCharacters(text, n) == SubSeq(text, 1, IF Len(text) < n THEN Len(text) ELSE n)

\* C22: the overview of every candidate of retrieve_movies has at most 300 characters and
\* is the first 300 characters of the overview of the movie's record, whatever the length
\* of the overview and with or without a tagline; it is never another part of the content.
C22_OverviewIsRecordOverview ==
    (MoviesReturned /\ tool.name = "retrieve_movies") =>
        \A i \in 1..Len(tool.outcome.artifact) :
            LET candidate == tool.outcome.artifact[i]
            IN  /\ Len(candidate.overview) <= 300
                /\ candidate.overview = FirstCharacters(OverviewOfTitle(candidate.title), 300)

-----------------------------------------------------------------------------
(* C23 *)

\* the script run that an event of the session triggered has finished
RunFinished == turn.t = "turn" /\ turn.pc = "awaiting"

\* C23: whenever a triggered run has finished, every user entry of the history is followed
\* at once by exactly one assistant entry: after the first assistant entry the history
\* alternates between user and assistant.
C23_HistoryAlternates ==
    RunFinished =>
        \A i \in 1..Len(messages_agent) :
            /\ messages_agent[i].role = "user" =>
                   /\ i < Len(messages_agent)
                   /\ messages_agent[i + 1].role = "assistant"
            /\ (messages_agent[i].role = "assistant" /\ i > 1) =>
                   messages_agent[i - 1].role = "user"

-----------------------------------------------------------------------------
(* C24 *)

\* C24: once the process-wide _retriever holds an index, no step of a get_retriever call,
\* whatever its use_existing, replaces or resets it.
C24_RetrieverNeverReplaced ==
    [][_retriever.t = "store" => _retriever' = _retriever]_vars

-----------------------------------------------------------------------------
(* C25 *)

\* the call got a retriever from get_retriever()
RetrieverObtained ==
    /\ tool.exception \in {"", "search"}
    /\ tool.outcome.content.kind # "no_retriever"

\* C25: search_movies_by_filters called without any filter argument returns the text that
\* no filter was specified and makes no search; called with at least one filter argument it
\* makes one search, with the placeholder query.
C25_SearchOnlyUnderFilters ==
    (ToolReturned("search_movies_by_filters") /\ RetrieverObtained) =>
        IF \A key \in DOMAIN NoArgs : ~Supplied(tool.args[key])
        THEN /\ tool.outcome.content.kind = "no_filters"
             /\ ~tool.search.made
        ELSE /\ tool.search.made
             /\ tool.search.query = PlaceholderQuery

====
